---- MODULE Spec2Model ----
(***************************************************************************)
(* Model of the LovChat streaming session controller                       *)
(* (labs_app/frontend/src/store/provider.tsx): the redux store with its    *)
(* reducers, the thunks search / askQuestion / recordHistory / chat /      *)
(* abortRequest, and the callbacks onopen / onmessage / onerror that the   *)
(* event-source transport calls.                                           *)
(*                                                                         *)
(* Text is modelled as a sequence of one-character strings, so that trim,  *)
(* the legacy bracket-tag match and JSON.parse are computed, not assumed.  *)
(***************************************************************************)
EXTENDS Integers, Sequences, FiniteSets, TLC

VARIABLES
    state,            \* store.getState(): GlobalStateType
    abortController,  \* module-level `abortController`: 0 is null, else the chat owning it
    chats,            \* one closure record per call of thunkActions.chat
    nEvents,          \* number of stream events delivered so far (bounded)
    input,            \* scenario: what the environment sends (records, text, questions)
    wire,             \* scenario: the part of input not yet delivered
    storage,          \* window.localStorage[HISTORY_STORAGE_KEY]: a text, or Null when absent
    loaded,           \* GLOBAL_STATE.history: what loadHistory gave at controller start
    reader            \* streamQuestion of the static client: its locals and the page

vars == <<state, abortController, chats, nEvents, input, wire, storage, loaded, reader>>

----------------------------------------------------------------------------
(* Bounds of the model *)

MaxChats == 2       \* chats started in one behaviour of Spec
MaxEvents == 1      \* stream events delivered in one behaviour of Spec
MaxFailures == 1    \* transport failures in one behaviour of Spec
MaxRetryEvents == 2 \* stream events delivered in one behaviour of SpecRetry
MaxRecords == 3     \* records on the wire in SpecE2E
MaxRecordings == 2  \* questions recorded in one behaviour of SpecHistory (the fill apart)
MaxPieces == 2      \* pieces of response text in SpecReader
MaxChunkLen == 64   \* characters in one network chunk in SpecReader
MaxSrcChats == 2    \* chats started in one behaviour of SpecSources
MaxSrcEvents == 2   \* stream events delivered in one behaviour of SpecSources
MaxEvtChats == 2    \* chats started in one behaviour of SpecEvents
MaxEvtEvents == 3   \* stream events delivered in one behaviour of SpecEvents

(* Program constants *)

MAX_HISTORY_ENTRIES == 20
RETRY_LIMIT == 3

----------------------------------------------------------------------------
(* Text: sequences of one-character strings *)

WhiteSpace == {" ", "\n", "\t", "\r"}

UpperCase == <<"A","B","C","D","E","F","G","H","I","J","K","L","M",
               "N","O","P","Q","R","S","T","U","V","W","X","Y","Z">>
LowerCase == <<"a","b","c","d","e","f","g","h","i","j","k","l","m",
               "n","o","p","q","r","s","t","u","v","w","x","y","z">>
Digits == {"0","1","2","3","4","5","6","7","8","9"}

IsUpper(c) == \E k \in 1..26 : UpperCase[k] = c

toLowerChar(c) ==
    IF IsUpper(c) THEN LowerCase[CHOOSE k \in 1..26 : UpperCase[k] = c] ELSE c

toLowerCase(s) == [k \in 1..Len(s) |-> toLowerChar(s[k])]

RECURSIVE trimStart(_)
trimStart(s) ==
    IF s # <<>> /\ Head(s) \in WhiteSpace THEN trimStart(Tail(s)) ELSE s

RECURSIVE trimEnd(_)
trimEnd(s) ==
    IF s # <<>> /\ s[Len(s)] \in WhiteSpace
    THEN trimEnd(SubSeq(s, 1, Len(s) - 1))
    ELSE s

trim(s) == trimEnd(trimStart(s))

startsWith(s, p) == Len(s) >= Len(p) /\ SubSeq(s, 1, Len(p)) = p

\* String.prototype.indexOf for a one-character needle; 0 when absent
\* (positions are 1-based here, so 0 plays the part of -1).
indexOf(s, c) ==
    IF \E k \in 1..Len(s) : s[k] = c
    THEN CHOOSE k \in 1..Len(s) : s[k] = c /\ \A j \in 1..(k - 1) : s[j] # c
    ELSE 0

\* String.prototype.split("\n")
RECURSIVE splitLines(_)
splitLines(s) ==
    LET k == indexOf(s, "\n") IN
    IF k = 0 THEN <<s>>
    ELSE <<SubSeq(s, 1, k - 1)>> \o splitLines(SubSeq(s, k + 1, Len(s)))

\* Array.prototype.join("\n")
RECURSIVE joinLines(_)
joinLines(ls) ==
    IF ls = <<>> THEN <<>>
    ELSE IF Len(ls) = 1 THEN ls[1]
    ELSE ls[1] \o <<"\n">> \o joinLines(Tail(ls))

----------------------------------------------------------------------------
(* Literals of the program *)

Idle == "idle"
StreamingMessage == "loading"
Done == "done"
Error == "error"
AppStatus == {Idle, StreamingMessage, Done, Error}

EV_SESSION_ID == <<"s","e","s","s","i","o","n","_","i","d">>
EV_SOURCE == <<"s","o","u","r","c","e">>
EV_ANSWER_HTML == <<"a","n","s","w","e","r","_","h","t","m","l">>
EV_STATUS == <<"s","t","a","t","u","s">>
EV_SOURCE_LIST == <<"s","o","u","r","c","e","_","l","i","s","t">>
EV_CHUNK == <<"c","h","u","n","k">>
EV_CONTEXTS == <<"c","o","n","t","e","x","t","s">>
EV_DONE == <<"d","o","n","e">>
EV_FATALERROR == <<"f","a","t","a","l","e","r","r","o","r">>
EV_ERROR == <<"e","r","r","o","r">>
FatalErrorName == <<"F","a","t","a","l","E","r","r","o","r">>

\* The three narration texts the controller writes itself; their wording is
\* not examined by any handler, so each is kept as one token (in ASCII).
MsgStart == <<"Starter sok i lovverket...">>
MsgDone == <<"Ferdig.">>
MsgFallback == <<"Klarte ikke a hente svar fra GPTLov. Kontroller tilkoblingen og prov igjen.">>
DigitText == <<"1","2","3","4","5","6","7","8","9">>
MsgFound(n) == <<"Fant ", DigitText[n], " relevante utdrag - analyserer...">>

Null == <<"null">>   \* the value null of sessionId (no text is a one-token sequence "null")

----------------------------------------------------------------------------
(* JavaScript values of an event payload, and JSON.parse.                  *)
(* A value is a record [t, v]: t is the typeof-like tag, v the content     *)
(* (text for a string or a number, a function from keys to values for an   *)
(* object, a sequence of values for an array).                             *)

Undefined == [t |-> "undefined", v |-> <<>>]
JsNull == [t |-> "null", v |-> <<>>]
Str(s) == [t |-> "string", v |-> s]
Num(s) == [t |-> "number", v |-> s]
Bool(b) == [t |-> "boolean", v |-> b]
Obj(f) == [t |-> "object", v |-> f]
Arr(a) == [t |-> "array", v |-> a]

EmptyFun == [k \in {} |-> Undefined]

ParseFail == [ok |-> FALSE, val |-> Undefined, rest |-> <<>>]

\* The length of the longest prefix of s whose characters are all in set.
RECURSIVE runLength(_, _)
runLength(s, set) ==
    IF s # <<>> /\ Head(s) \in set THEN 1 + runLength(Tail(s), set) ELSE 0

LitTrue == <<"t","r","u","e">>
LitFalse == <<"f","a","l","s","e">>
LitNull == <<"n","u","l","l">>

\* JSON.parse on the grammar the wire and the storage use: strings, unsigned
\* integers, true / false / null, objects and arrays, without inner white space.
RECURSIVE scanString(_, _)
RECURSIVE parseValue(_)
RECURSIVE parseMembers(_, _)
RECURSIVE parseElements(_, _)

\* s stands right after the opening quote of a string; acc holds the
\* characters read so far. The escapes are \", \\, \/ and \n; a raw line
\* break inside a string is an error.
scanString(s, acc) ==
    IF s = <<>> \/ Head(s) = "\n" THEN ParseFail
    ELSE IF Head(s) = "\"" THEN [ok |-> TRUE, val |-> Str(acc), rest |-> Tail(s)]
    ELSE IF Head(s) = "\\" THEN
        IF Len(s) >= 2 /\ s[2] \in {"\"", "\\", "/"}
        THEN scanString(SubSeq(s, 3, Len(s)), Append(acc, s[2]))
        ELSE IF Len(s) >= 2 /\ s[2] = "n"
        THEN scanString(SubSeq(s, 3, Len(s)), Append(acc, "\n"))
        ELSE ParseFail
    ELSE scanString(Tail(s), Append(acc, Head(s)))

parseValue(s) ==
    IF s = <<>> THEN ParseFail
    ELSE IF Head(s) = "\"" THEN scanString(Tail(s), <<>>)
    ELSE IF Head(s) \in Digits THEN
        LET n == runLength(s, Digits) IN
        IF n > 1 /\ Head(s) = "0" THEN ParseFail
        ELSE [ok |-> TRUE, val |-> Num(SubSeq(s, 1, n)), rest |-> SubSeq(s, n + 1, Len(s))]
    ELSE IF startsWith(s, LitTrue) THEN
        [ok |-> TRUE, val |-> Bool(TRUE), rest |-> SubSeq(s, 5, Len(s))]
    ELSE IF startsWith(s, LitFalse) THEN
        [ok |-> TRUE, val |-> Bool(FALSE), rest |-> SubSeq(s, 6, Len(s))]
    ELSE IF startsWith(s, LitNull) THEN
        [ok |-> TRUE, val |-> JsNull, rest |-> SubSeq(s, 5, Len(s))]
    ELSE IF Head(s) = "{" THEN
        IF Len(s) >= 2 /\ s[2] = "}"
        THEN [ok |-> TRUE, val |-> Obj(EmptyFun), rest |-> SubSeq(s, 3, Len(s))]
        ELSE parseMembers(Tail(s), EmptyFun)
    ELSE IF Head(s) = "[" THEN
        IF Len(s) >= 2 /\ s[2] = "]"
        THEN [ok |-> TRUE, val |-> Arr(<<>>), rest |-> SubSeq(s, 3, Len(s))]
        ELSE parseElements(Tail(s), <<>>)
    ELSE ParseFail

\* s stands right after "{" or ","; acc holds the members read so far.
parseMembers(s, acc) ==
    LET key == parseValue(s) IN
    IF ~key.ok \/ key.val.t # "string" \/ key.rest = <<>> \/ Head(key.rest) # ":"
    THEN ParseFail
    ELSE
        LET val == parseValue(Tail(key.rest))
            next == (key.val.v :> val.val) @@ acc
        IN  IF ~val.ok \/ val.rest = <<>> THEN ParseFail
            ELSE IF Head(val.rest) = "}"
            THEN [ok |-> TRUE, val |-> Obj(next), rest |-> Tail(val.rest)]
            ELSE IF Head(val.rest) = "," THEN parseMembers(Tail(val.rest), next)
            ELSE ParseFail

\* s stands right after "[" or ","; acc holds the elements read so far.
parseElements(s, acc) ==
    LET val == parseValue(s) IN
    IF ~val.ok \/ val.rest = <<>> THEN ParseFail
    ELSE IF Head(val.rest) = "]"
    THEN [ok |-> TRUE, val |-> Arr(Append(acc, val.val)), rest |-> Tail(val.rest)]
    ELSE IF Head(val.rest) = "," THEN parseElements(Tail(val.rest), Append(acc, val.val))
    ELSE ParseFail

JSONParse(s) ==
    LET r == parseValue(s) IN
    IF r.ok /\ r.rest = <<>> THEN [ok |-> TRUE, val |-> r.val]
    ELSE [ok |-> FALSE, val |-> Undefined]

\* obj?.key
Get(obj, key) ==
    IF obj.t = "object" /\ key \in DOMAIN obj.v THEN obj.v[key] ELSE Undefined

\* JavaScript truthiness
Truthy(x) ==
    CASE x.t = "string" -> x.v # <<>>
      [] x.t = "number" -> \E k \in 1..Len(x.v) : x.v[k] # "0"
      [] x.t = "boolean" -> x.v
      [] x.t \in {"object", "array"} -> TRUE
      [] OTHER -> FALSE

\* String(x)
RECURSIVE ToText(_)
RECURSIVE joinComma(_)
joinComma(a) ==
    LET first == IF a[1].t \in {"null", "undefined"} THEN <<>> ELSE ToText(a[1]) IN
    IF Len(a) = 1 THEN first ELSE first \o <<",">> \o joinComma(Tail(a))

ToText(x) ==
    CASE x.t \in {"string", "number"} -> x.v
      [] x.t = "boolean" -> IF x.v THEN LitTrue ELSE LitFalse
      [] x.t = "null" -> LitNull
      [] x.t = "object" ->
            <<"[","o","b","j","e","c","t"," ","O","b","j","e","c","t","]">>
      [] x.t = "array" -> IF x.v = <<>> THEN <<>> ELSE joinComma(x.v)
      [] OTHER -> <<"u","n","d","e","f","i","n","e","d">>

----------------------------------------------------------------------------
(* History: loadHistory is modelled by Init, persistHistory writes the     *)
(* list it is given to storage and changes no store field.                 *)

normaliseQuestion(value) == trim(value)

\* Variant of sameQuestion: equal character by character.
sameQuestion_Exact(a, b) == a = b

\* entry.localeCompare(normalized, undefined, {sensitivity: 'accent'}) = 0:
\* equal up to case.
sameQuestion(a, b) == toLowerCase(a) = toLowerCase(b)

RECURSIVE filterOut(_, _)
filterOut(history, normalized) ==
    IF history = <<>> THEN <<>>
    ELSE IF sameQuestion(Head(history), normalized)
    THEN filterOut(Tail(history), normalized)
    ELSE <<Head(history)>> \o filterOut(Tail(history), normalized)

slice(list, n) == SubSeq(list, 1, IF Len(list) < n THEN Len(list) ELSE n)

buildHistoryList(history, question) ==
    LET normalized == normaliseQuestion(question) IN
    IF Len(normalized) = 0 THEN history
    ELSE slice(<<normalized>> \o filterOut(history, normalized), MAX_HISTORY_ENTRIES)

\* parsed.filter((item) => typeof item === 'string'), as texts
RECURSIVE filterStrings(_)
filterStrings(items) ==
    IF items = <<>> THEN <<>>
    ELSE (IF Head(items).t = "string" THEN <<Head(items).v>> ELSE <<>>)
            \o filterStrings(Tail(items))

\* The list loadHistory makes of a parsed value.
loadParsed(parsed) ==
    IF ~parsed.ok \/ parsed.val.t # "array" THEN <<>>
    ELSE slice(filterStrings(parsed.val.v), MAX_HISTORY_ENTRIES)

\* Variant of loadHistory: a value that is not JSON is taken as one entry.
loadHistory_KeepsCorrupt(raw) ==
    IF raw = Null \/ raw = <<>> THEN <<>>
    ELSE IF ~JSONParse(raw).ok THEN <<raw>>
    ELSE loadParsed(JSONParse(raw))

\* loadHistory: raw is what getItem gives, Null for a missing key.
loadHistory(raw) ==
    IF raw = Null \/ raw = <<>> THEN <<>> ELSE loadParsed(JSONParse(raw))

\* JSON.stringify of a string: quotes, with \", \\ and line breaks escaped.
RECURSIVE escapeText(_)
escapeText(s) ==
    IF s = <<>> THEN <<>>
    ELSE (IF Head(s) \in {"\"", "\\"} THEN <<"\\", Head(s)>>
          ELSE IF Head(s) = "\n" THEN <<"\\", "n">>
          ELSE <<Head(s)>>) \o escapeText(Tail(s))

RECURSIVE stringifyItems(_)
stringifyItems(list) ==
    IF list = <<>> THEN <<>>
    ELSE <<"\"">> \o escapeText(Head(list)) \o <<"\"">>
            \o (IF Len(list) > 1 THEN <<",">> ELSE <<>>) \o stringifyItems(Tail(list))

\* JSON.stringify of an array of strings
JSONStringify(list) == <<"[">> \o stringifyItems(list) \o <<"]">>

\* persistHistory: the value of the key after it. setItem may throw
\* (writable is FALSE), which is caught and leaves the key as it was.
persistHistory(raw, history, writable) ==
    IF writable THEN JSONStringify(slice(history, MAX_HISTORY_ENTRIES)) ELSE raw

\* historyChanged of recordHistory
historyChanged(history, nextHistory) ==
    \/ Len(nextHistory) # Len(history)
    \/ \E k \in 1..Len(nextHistory) : history[k] # nextHistory[k]

\* recordHistory: the value of the key after it.
recordStorage(S, question, raw, writable) ==
    IF historyChanged(S.history, buildHistoryList(S.history, question))
    THEN persistHistory(raw, buildHistoryList(S.history, question), writable)
    ELSE raw

----------------------------------------------------------------------------
(* The reducers of globalSlice: each takes the state and its payload and   *)
(* gives the next state.                                                   *)

GLOBAL_STATE ==
    [status |-> Idle, conversation |-> <<>>, sessionId |-> Null,
     sources |-> <<>>, history |-> <<>>, statusMessages |-> <<>>]

\* Array.prototype.findIndex; 0 when no element satisfies the test.
findIndexById(list, id) ==
    IF \E k \in 1..Len(list) : list[k].id = id
    THEN CHOOSE k \in 1..Len(list) :
            list[k].id = id /\ \A j \in 1..(k - 1) : list[j].id # id
    ELSE 0

findIndexByName(list, name) ==
    IF \E k \in 1..Len(list) : list[k].name = name
    THEN CHOOSE k \in 1..Len(list) :
            list[k].name = name /\ \A j \in 1..(k - 1) : list[j].name # name
    ELSE 0

\* Variant of addSource: the snippet is appended whether or not the summary
\* holds it already.
addSource_AlwaysAppend(S, source) ==
    LET k == findIndexByName(S.sources, source.name) IN
    IF k # 0 THEN [S EXCEPT !.sources[k].summary = Append(@, source.summary)]
    ELSE [S EXCEPT !.sources =
            Append(@, [name |-> source.name, url |-> source.url,
                       summary |-> <<source.summary>>, expanded |-> FALSE])]

addSource(S, source) ==
    LET k == findIndexByName(S.sources, source.name) IN
    IF k # 0 THEN
        \* !rootSource.summary.find(...): find gives the snippet found, and an
        \* empty snippet found counts as nothing found.
        IF /\ \E j \in 1..Len(S.sources[k].summary) : S.sources[k].summary[j] = source.summary
           /\ source.summary # <<>>
        THEN S
        ELSE [S EXCEPT !.sources[k].summary = Append(@, source.summary)]
    ELSE [S EXCEPT !.sources =
            Append(@, [name |-> source.name, url |-> source.url,
                       summary |-> <<source.summary>>, expanded |-> FALSE])]

setStatus(S, status) == [S EXCEPT !.status = status]

setSessionId(S, sessionId) == [S EXCEPT !.sessionId = sessionId]

\* A turn always carries all its fields here: contentHtml <<>> and
\* sources <<>> stand for the fields being absent.
Turn(id, isHuman, content) ==
    [id |-> id, isHuman |-> isHuman, content |-> content,
     contentHtml |-> <<>>, sources |-> <<>>]

\* Variant of addMessage: the turn is put in front of the conversation.
addMessage_Front(S, conversation) ==
    [S EXCEPT !.conversation = <<conversation>> \o @]

addMessage(S, conversation) == [S EXCEPT !.conversation = Append(@, conversation)]

\* payload is a record holding id and the fields to overwrite.
updateMessage(S, payload) ==
    LET k == findIndexById(S.conversation, payload.id) IN
    IF k # 0
    THEN [S EXCEPT !.conversation[k] =
            [f \in DOMAIN @ |-> IF f \in DOMAIN payload THEN payload[f] ELSE @[f]]]
    ELSE S

RECURSIVE resolveSources(_, _)
resolveSources(names, sources) ==
    IF names = <<>> THEN <<>>
    ELSE
        LET k == IF Head(names).t = "string"
                 THEN findIndexByName(sources, Head(names).v) ELSE 0
        IN  (IF k # 0 THEN <<sources[k]>> ELSE <<>>)
                \o resolveSources(Tail(names), sources)

\* Variant of setMessageSource: the sources named are attached in the order
\* the store holds them.
setMessageSource_StoreOrder(S, id, names) ==
    LET k == findIndexById(S.conversation, id) IN
    IF k # 0
    THEN [S EXCEPT !.conversation[k].sources =
            SelectSeq(S.sources,
                      LAMBDA source : \E j \in 1..Len(names) : names[j] = Str(source.name))]
    ELSE S

setMessageSource(S, id, names) ==
    LET k == findIndexById(S.conversation, id) IN
    IF k # 0
    THEN [S EXCEPT !.conversation[k].sources = resolveSources(names, S.sources)]
    ELSE S

\* Variant of removeAt: the first element is removed, whatever k is.
removeAt_First(list, k) == Tail(list)

removeAt(list, k) == SubSeq(list, 1, k - 1) \o SubSeq(list, k + 1, Len(list))

removeMessage(S, id) ==
    LET k == findIndexById(S.conversation, id) IN
    IF k # 0 THEN [S EXCEPT !.conversation = removeAt(@, k)] ELSE S

\* expanded is "true" or "false", or "toggle" when the payload gives no value.
sourceToggle(S, name, expanded) ==
    LET k == findIndexByName(S.sources, name) IN
    IF k # 0
    THEN [S EXCEPT !.sources[k].expanded =
            IF expanded = "toggle" THEN ~@ ELSE expanded = "true"]
    ELSE S

setHistory(S, history) == [S EXCEPT !.history = history]

addStatusMessage(S, message) == [S EXCEPT !.statusMessages = Append(@, message)]

resetStatusMessages(S) == [S EXCEPT !.statusMessages = <<>>]

\* Variant of reset: the session id outlives the reset.
reset_KeepsSession(S) ==
    [S EXCEPT !.status = Idle, !.conversation = <<>>,
              !.sources = <<>>, !.statusMessages = <<>>]

\* Variant of reset: the history is cleared with the rest.
reset_ClearsHistory(S) ==
    [S EXCEPT !.status = Idle, !.sessionId = Null, !.conversation = <<>>,
              !.sources = <<>>, !.statusMessages = <<>>, !.history = <<>>]

reset(S) ==
    [S EXCEPT !.status = Idle, !.sessionId = Null, !.conversation = <<>>,
              !.sources = <<>>, !.statusMessages = <<>>]

----------------------------------------------------------------------------
(* thunkActions.chat: the callbacks given to fetchEventSource.             *)
(* A chat closure is a record:                                             *)
(*   phase              where the transport of this chat stands            *)
(*                      ("connecting", "open", "retrywait", "resolved",    *)
(*                       "rejected", "aborted")                            *)
(*   conversationId     the const of the closure                           *)
(*   message            the let of the closure (text accumulated)          *)
(*   countRetiresError  the let of the closure                             *)
(*   sessionId          the session id put in the request URL              *)
(*   only503            history: every failure so far was an open with 503 *)

Active == {"connecting", "open", "retrywait"}

\* payloadData.match(/^\[([A-Z_]+)\]\s*([\s\S]*)$/): ok, the tag and the rest.
TagChars == {UpperCase[k] : k \in 1..26} \cup {"_"}

legacyMatch(text) ==
    LET n == IF text # <<>> /\ Head(text) = "[" THEN runLength(Tail(text), TagChars) ELSE 0 IN
    IF n >= 1 /\ Len(text) >= n + 2 /\ text[n + 2] = "]"
    THEN [ok |-> TRUE, tag |-> SubSeq(text, 2, n + 1),
          rest |-> trimStart(SubSeq(text, n + 3, Len(text)))]
    ELSE [ok |-> FALSE, tag |-> <<>>, rest |-> <<>>]

\* Lines 296-343 of onmessage: from the transport's event (event, data) to
\* the payload type and payload data, or to a thrown FatalError. The steps
\* are separate operators, each taking the values computed before it.

Thrown(err) ==
    [thrown |-> TRUE, err |-> err, payloadType |-> <<>>, payloadData |-> Undefined]

Typed(payloadType, payloadData) ==
    [thrown |-> FALSE, err |-> <<>>, payloadType |-> payloadType,
     payloadData |-> payloadData]

\* try { JSON.parse(text) } catch { text }
parseOrText(text, parsed) == IF parsed.ok THEN parsed.val ELSE Str(text)

\* lines 299-312 (without the throw of line 304)
parsePayload(event, rawEventData) ==
    IF rawEventData # <<>>
    THEN parseOrText(rawEventData, JSONParse(rawEventData))
    ELSE Str(event.data)

\* lines 319-331: legacyPayload is legacyMatch[2].trim()
legacyData(legacyPayload) ==
    IF startsWith(legacyPayload, <<"{">>) \/ startsWith(legacyPayload, <<"[">>)
    THEN parseOrText(legacyPayload, JSONParse(legacyPayload))
    ELSE IF Len(legacyPayload) > 0 THEN Str(legacyPayload)
    ELSE JsNull

\* lines 316-334: payloadData is a string and there is no event field
resolveLegacy(payloadData, match) ==
    IF match.ok
    THEN Typed(toLowerCase(match.tag), legacyData(trim(match.rest)))
    ELSE IF Len(payloadData.v) > 0 THEN Typed(EV_CHUNK, payloadData)
    ELSE Typed(<<>>, payloadData)

\* lines 314-339
resolveType(event, rawEventData, payloadData) ==
    IF event.event # <<>> THEN Typed(event.event, payloadData)
    ELSE IF payloadData.t = "string"
    THEN resolveLegacy(payloadData, legacyMatch(payloadData.v))
    ELSE IF rawEventData # <<>> THEN Typed(EV_CHUNK, Str(rawEventData))
    ELSE Typed(<<>>, payloadData)

\* lines 341-343
throwFatal(event, typed) ==
    IF typed.payloadType = EV_FATALERROR THEN Thrown(event.data) ELSE typed

\* lines 296-343
decodeRaw(event, rawEventData) ==
    IF rawEventData # <<>> /\ event.event = FatalErrorName
    THEN Thrown(rawEventData)
    ELSE throwFatal(event,
            resolveType(event, rawEventData, parsePayload(event, rawEventData)))

decodeEvent(event) == decodeRaw(event, trim(event.data))

\* Lines 345-448 of onmessage: the event applied to the store S by the chat
\* closure c. Gives the next store and the next value of `message`.
applyEvent(S, c, payloadType, payloadData) ==
    LET keep == [thrown |-> FALSE, err |-> <<>>, state |-> S, message |-> c.message] IN
    IF payloadType = EV_SESSION_ID THEN
        [keep EXCEPT !.state =
            setSessionId(S, IF payloadData.t = "string" THEN trim(payloadData.v) ELSE <<>>)]
    ELSE IF payloadType = EV_SOURCE THEN
        LET name == Get(payloadData, <<"n","a","m","e">>)
            page == Get(payloadData, <<"p","a","g","e","_","c","o","n","t","e","n","t">>)
            url == Get(payloadData, <<"u","r","l">>)
            path == Get(payloadData, <<"s","o","u","r","c","e","_","p","a","t","h">>)
            link == IF Truthy(url) THEN url.v ELSE IF Truthy(path) THEN path.v ELSE <<>>
        IN  IF Truthy(page) /\ Truthy(name)
            THEN [keep EXCEPT !.state =
                    addSource(S, [name |-> name.v, url |-> link, summary |-> page.v])]
            ELSE keep
    ELSE IF payloadType = EV_STATUS THEN
        LET candidate == Get(payloadData, <<"m","e","s","s","a","g","e">>)
            statusMessage ==
                IF payloadData.t = "string" THEN trim(payloadData.v)
                ELSE IF candidate.t = "string" THEN trim(candidate.v)
                ELSE <<>>
        IN  IF statusMessage # <<>>
            THEN [keep EXCEPT !.state = addStatusMessage(S, statusMessage)]
            ELSE keep
    ELSE IF payloadType = EV_SOURCE_LIST THEN
        LET inner == Get(payloadData, <<"n","a","m","e","s">>)
            names == IF inner.t = "array" THEN inner.v
                     ELSE IF payloadData.t = "array" THEN payloadData.v
                     ELSE <<>>
        IN  IF Len(names) > 0
            THEN [keep EXCEPT !.state =
                    addStatusMessage(setMessageSource(S, c.conversationId, names),
                                     MsgFound(Len(names)))]
            ELSE keep
    ELSE IF payloadType = EV_CONTEXTS THEN keep
    ELSE IF payloadType = EV_ANSWER_HTML THEN
        IF payloadData.t = "string"
        THEN [keep EXCEPT !.state =
                updateMessage(S, [id |-> c.conversationId, contentHtml |-> payloadData.v])]
        ELSE keep
    ELSE IF payloadType = EV_CHUNK THEN
        LET chunk == IF payloadData.t = "string" THEN payloadData.v ELSE <<>> IN
        IF chunk # <<>>
        THEN [keep EXCEPT
                !.state = updateMessage(S, [id |-> c.conversationId,
                                            content |-> c.message \o chunk]),
                !.message = c.message \o chunk]
        ELSE keep
    ELSE IF payloadType = EV_DONE THEN
        [keep EXCEPT !.state = setStatus(addStatusMessage(S, MsgDone), Done)]
    ELSE IF Truthy(payloadData) THEN
        [keep EXCEPT !.state = addStatusMessage(S, trim(ToText(payloadData)))]
    ELSE keep

\* Variant of applyDecoded: the done branch appends its narration and
\* leaves status as it is.
applyDecoded_DoneKeepsStatus(S, c, d) ==
    IF d.thrown
    THEN [thrown |-> TRUE, err |-> d.err, state |-> S, message |-> c.message]
    ELSE IF d.payloadType = EV_DONE
    THEN [thrown |-> FALSE, err |-> <<>>, state |-> addStatusMessage(S, MsgDone),
          message |-> c.message]
    ELSE applyEvent(S, c, d.payloadType, d.payloadData)

\* The decoded event d applied: nothing is dispatched when onmessage threw.
applyDecoded(S, c, d) ==
    IF d.thrown
    THEN [thrown |-> TRUE, err |-> d.err, state |-> S, message |-> c.message]
    ELSE applyEvent(S, c, d.payloadType, d.payloadData)

\* onmessage as a whole: [thrown, err, state, message].
onmessage(S, c, event) == applyDecoded(S, c, decodeEvent(event))

\* Variant of onopen: 429 is not excepted from the fatal 4xx range.
onopen_429Fatal(status) ==
    IF status >= 200 /\ status <= 299 THEN "none"
    ELSE IF status >= 400 /\ status < 500 THEN "fatal"
    ELSE "retriable"

\* onopen: what it throws for a response status ("none", "fatal", "retriable").
onopen(status) ==
    IF status >= 200 /\ status <= 299 THEN "none"
    ELSE IF status >= 400 /\ status < 500 /\ status # 429 THEN "fatal"
    ELSE "retriable"

\* Variant of onerror: the retry branch does not count.
onerror_NeverCounts(S, c, isFatal, errMessage) ==
    IF isFatal \/ c.countRetiresError > RETRY_LIMIT
    THEN [state |-> setStatus(
                        addStatusMessage(S,
                            IF isFatal /\ trim(errMessage) # <<>>
                            THEN trim(errMessage) ELSE MsgFallback),
                        Error),
          countRetiresError |-> c.countRetiresError,
          rethrown |-> TRUE]
    ELSE [state |-> S,
          countRetiresError |-> c.countRetiresError,
          rethrown |-> FALSE]

\* onerror: err is a FatalError (isFatal) with message errMessage, or anything
\* else. Gives the next store, the next retry count and whether err is rethrown.
onerror(S, c, isFatal, errMessage) ==
    IF isFatal \/ c.countRetiresError > RETRY_LIMIT
    THEN [state |-> setStatus(
                        addStatusMessage(S,
                            IF isFatal /\ trim(errMessage) # <<>>
                            THEN trim(errMessage) ELSE MsgFallback),
                        Error),
          countRetiresError |-> c.countRetiresError,
          rethrown |-> TRUE]
    ELSE [state |-> S,
          countRetiresError |-> c.countRetiresError + 1,
          rethrown |-> FALSE]

----------------------------------------------------------------------------
(* The thunks, as functions of the store (and of the controller handle).   *)

Last(list) == list[Len(list)]

\* recordHistory: the store after it (persistHistory changes no store field).
recordHistory(S, question) ==
    LET nextHistory == buildHistoryList(S.history, question) IN
    IF historyChanged(S.history, nextHistory) THEN setHistory(S, nextHistory) ELSE S

\* Variant of abortStore: the sources go with the cancelled attempt.
abortStore_DropsSources(S) ==
    LET messages == S.conversation
        S1 == IF Len(messages) > 0 /\ Last(messages).content = <<>>
              THEN removeMessage(S, Last(messages).id)
              ELSE S
        S2 == setStatus(S1, IF Len(messages) > 0 THEN Done ELSE Idle)
    IN  [resetStatusMessages(S2) EXCEPT !.sources = <<>>]

\* abortRequest: the store after it. `messages` is the conversation read
\* before any dispatch, and is what the status is computed from.
abortStore(S) ==
    LET messages == S.conversation
        S1 == IF Len(messages) > 0 /\ Last(messages).content = <<>>
              THEN removeMessage(S, Last(messages).id)
              ELSE S
        S2 == setStatus(S1, IF Len(messages) > 0 THEN Done ELSE Idle)
    IN  resetStatusMessages(S2)

\* Variant of abortChats: a pending retry timer survives the abort.
abortChats_TimerKept(C, handle) ==
    IF handle # 0 /\ C[handle].phase \in {"connecting", "open"}
    THEN [C EXCEPT ![handle].phase = "aborted"]
    ELSE C

\* abortController?.abort(): the transport of the chat owning the handle
\* stops (pending read, pending fetch and retry timer) and its promise
\* resolves; a transport that has already ended is left as it is.
abortChats(C, handle) ==
    IF handle # 0 /\ C[handle].phase \in Active
    THEN [C EXCEPT ![handle].phase = "aborted"]
    ELSE C

\* Variant of chatStore: the status messages of earlier attempts are kept.
chatStore_NoReset(S) ==
    setStatus(addStatusMessage(
                addMessage(S, Turn(Len(S.conversation) + 1, FALSE, <<>>)), MsgStart),
              StreamingMessage)

\* chat: the store after lines 259-277.
chatStore(S) ==
    LET conversationId == Len(S.conversation) + 1
        S1 == addMessage(S, Turn(conversationId, FALSE, <<>>))
        S2 == addStatusMessage(resetStatusMessages(S1), MsgStart)
    IN  setStatus(S2, StreamingMessage)

\* chat: the closure created by lines 259-283, its request on its way.
chatClosure(S) ==
    [phase |-> "connecting",
     conversationId |-> Len(S.conversation) + 1,
     message |-> <<>>,
     countRetiresError |-> 0,
     sessionId |-> S.sessionId,
     only503 |-> TRUE]

----------------------------------------------------------------------------
(* Actions. The Do-forms give state', abortController' and chats'.         *)

\* streamQuestion before it is called: its locals and the page elements.
READER_IDLE ==
    [phase |-> "idle", buffer |-> <<>>, handled |-> <<>>, doneReceived |-> FALSE,
     answerPlainText |-> <<>>, answerHtml |-> <<>>, statusLine |-> <<>>,
     contexts |-> 0, hasShownResults |-> FALSE]

Questions == { <<"H","v","a"," ">> }

Codes == {200, 404, 429, 503, 304}

Ev(event, data) == [event |-> event, data |-> data]

Messages ==
    { Ev(EV_CHUNK, <<"a">>),
      Ev(EV_DONE, <<>>),
      Ev(EV_FATALERROR, <<"x">>),
      Ev(EV_ERROR, <<"x">>),
      Ev(<<>>, <<"[","F","A","T","A","L","E","R","R","O","R","]"," ","x">>) }

DoSearch(query) ==
    LET streaming == state.status = StreamingMessage
        S0 == IF streaming THEN abortStore(state) ELSE state
        C0 == IF streaming THEN abortChats(chats, abortController) ELSE chats
        S1 == reset(recordHistory(S0, query))
    IN  /\ state' = chatStore(S1)
        /\ chats' = Append(C0, chatClosure(S1))
        /\ abortController' = Len(chats) + 1
        /\ storage' = recordStorage(S0, query, storage, TRUE)

DoAskQuestion(question) ==
    LET S1 == recordHistory(state, question)
        S2 == addMessage(S1, Turn(Len(state.conversation) + 1, TRUE, question))
    IN  /\ state' = chatStore(S2)
        /\ chats' = Append(chats, chatClosure(S2))
        /\ abortController' = Len(chats) + 1
        /\ storage' = recordStorage(state, question, storage, TRUE)

DoAbortRequest ==
    /\ state' = abortStore(state)
    /\ chats' = abortChats(chats, abortController)
    /\ abortController' = 0
    /\ UNCHANGED storage

\* Variant of Caught: the text accumulated so far is dropped when the
\* attempt fails.
Caught_ResetsMessage(i, r, is503) ==
    /\ state' = r.state
    /\ chats' = [chats EXCEPT
            ![i].phase = IF r.rethrown THEN "rejected" ELSE "retrywait",
            ![i].countRetiresError = r.countRetiresError,
            ![i].only503 = @ /\ is503,
            ![i].message = <<>>]
    /\ UNCHANGED <<abortController, storage>>

\* The transport's catch for chat i: unless aborted it calls onerror, and
\* either schedules a new request or gives up and rejects.
Caught(i, r, is503) ==
    /\ state' = r.state
    /\ chats' = [chats EXCEPT
            ![i].phase = IF r.rethrown THEN "rejected" ELSE "retrywait",
            ![i].countRetiresError = r.countRetiresError,
            ![i].only503 = @ /\ is503]
    /\ UNCHANGED <<abortController, storage>>

DoFailure(i, isFatal, errMessage, is503) ==
    Caught(i, onerror(state, chats[i], isFatal, errMessage), is503)

\* The request of chat i is answered with a response status: onopen.
DoRespond(i, status) ==
    /\ chats[i].phase = "connecting"
    /\ IF onopen(status) = "none"
       THEN /\ chats' = [chats EXCEPT ![i].phase = "open"]
            /\ UNCHANGED <<state, abortController, storage>>
       ELSE DoFailure(i, onopen(status) = "fatal", <<>>, status = 503)

\* The request of chat i fails in the network (fetch rejects).
DoConnectFail(i) ==
    /\ chats[i].phase = "connecting"
    /\ DoFailure(i, FALSE, <<>>, FALSE)

\* The open stream of chat i delivers one event: onmessage. What onmessage
\* throws is thrown inside an async function: the transport either gets it
\* (propagated) and goes to its catch, or never sees the rejected promise.
Deliver(i, r, propagated) ==
    /\ chats[i].phase = "open"
    /\ IF r.thrown
       THEN IF propagated
            THEN DoFailure(i, TRUE, r.err, FALSE)
            ELSE UNCHANGED <<state, chats, abortController, storage>>
       ELSE /\ propagated
            /\ state' = r.state
            /\ chats' = [chats EXCEPT ![i].message = r.message]
            /\ UNCHANGED <<abortController, storage>>

DoMessage(i, event, propagated) ==
    Deliver(i, onmessage(state, chats[i], event), propagated)

\* The server ends the stream of chat i: the transport resolves (the chat
\* passes no onclose).
DoClose(i) ==
    /\ chats[i].phase = "open"
    /\ chats' = [chats EXCEPT ![i].phase = "resolved"]
    /\ UNCHANGED <<state, abortController, storage>>

\* The open stream of chat i breaks (the read rejects).
DoStreamFail(i) ==
    /\ chats[i].phase = "open"
    /\ DoFailure(i, FALSE, <<>>, FALSE)

\* The retry timer of chat i fires: a new request.
DoReconnect(i) ==
    /\ chats[i].phase = "retrywait"
    /\ chats' = [chats EXCEPT ![i].phase = "connecting"]
    /\ UNCHANGED <<state, abortController, storage>>

ChatIds == 1..Len(chats)

\* The number of failures the transports have met so far.
RECURSIVE SumFailures(_)
SumFailures(C) ==
    IF C = <<>> THEN 0
    ELSE C[1].countRetiresError + (IF C[1].phase = "rejected" THEN 1 ELSE 0)
            + SumFailures(Tail(C))

MayFail == SumFailures(chats) < MaxFailures

Search ==
    /\ Len(chats) < MaxChats
    /\ \E q \in Questions : DoSearch(q)
    /\ UNCHANGED <<nEvents, input, wire, loaded, reader>>

AskQuestion ==
    /\ Len(chats) < MaxChats
    /\ \E q \in Questions : DoAskQuestion(q)
    /\ UNCHANGED <<nEvents, input, wire, loaded, reader>>

AbortRequest ==
    /\ DoAbortRequest
    /\ UNCHANGED <<nEvents, input, wire, loaded, reader>>

Respond ==
    /\ \E i \in ChatIds, status \in Codes :
            (onopen(status) = "none" \/ MayFail) /\ DoRespond(i, status)
    /\ UNCHANGED <<nEvents, input, wire, loaded, reader>>

ConnectFail ==
    /\ MayFail
    /\ \E i \in ChatIds : DoConnectFail(i)
    /\ UNCHANGED <<nEvents, input, wire, loaded, reader>>

Message ==
    /\ nEvents < MaxEvents
    /\ \E i \in ChatIds, event \in Messages, propagated \in BOOLEAN :
            /\ (onmessage(state, chats[i], event).thrown /\ propagated) => MayFail
            /\ DoMessage(i, event, propagated)
    /\ nEvents' = nEvents + 1
    /\ UNCHANGED <<input, wire, loaded, reader>>

Close ==
    /\ \E i \in ChatIds : DoClose(i)
    /\ UNCHANGED <<nEvents, input, wire, loaded, reader>>

StreamFail ==
    /\ MayFail
    /\ \E i \in ChatIds : DoStreamFail(i)
    /\ UNCHANGED <<nEvents, input, wire, loaded, reader>>

Reconnect ==
    /\ \E i \in ChatIds : DoReconnect(i)
    /\ UNCHANGED <<nEvents, input, wire, loaded, reader>>

Init ==
    /\ state = GLOBAL_STATE
    /\ abortController = 0
    /\ chats = <<>>
    /\ nEvents = 0
    /\ input = <<>>
    /\ wire = <<>>
    /\ storage = Null
    /\ loaded = <<>>
    /\ reader = READER_IDLE

Next ==
    \/ Search
    \/ AskQuestion
    \/ AbortRequest
    \/ Respond
    \/ ConnectFail
    \/ Message
    \/ Close
    \/ StreamFail
    \/ Reconnect

Spec == Init /\ [][Next]_vars

----------------------------------------------------------------------------
(* One chat with all its retries: a single question is submitted, and the  *)
(* transport may fail as often as the chat lets it.                        *)

RetryStart ==
    /\ chats = <<>>
    /\ \E q \in Questions : DoSearch(q) \/ DoAskQuestion(q)
    /\ UNCHANGED <<nEvents, input, wire, loaded, reader>>

RetryAbort ==
    /\ chats # <<>>
    /\ DoAbortRequest
    /\ UNCHANGED <<nEvents, input, wire, loaded, reader>>

RetryRespond ==
    /\ chats # <<>>
    /\ \E status \in Codes : DoRespond(1, status)
    /\ UNCHANGED <<nEvents, input, wire, loaded, reader>>

RetryConnectFail ==
    /\ chats # <<>>
    /\ DoConnectFail(1)
    /\ UNCHANGED <<nEvents, input, wire, loaded, reader>>

RetryMessage ==
    /\ chats # <<>>
    /\ nEvents < MaxRetryEvents
    /\ \E event \in Messages, propagated \in BOOLEAN : DoMessage(1, event, propagated)
    /\ nEvents' = nEvents + 1
    /\ UNCHANGED <<input, wire, loaded, reader>>

RetryClose ==
    /\ chats # <<>>
    /\ DoClose(1)
    /\ UNCHANGED <<nEvents, input, wire, loaded, reader>>

RetryStreamFail ==
    /\ chats # <<>>
    /\ DoStreamFail(1)
    /\ UNCHANGED <<nEvents, input, wire, loaded, reader>>

RetryReconnect ==
    /\ chats # <<>>
    /\ DoReconnect(1)
    /\ UNCHANGED <<nEvents, input, wire, loaded, reader>>

NextRetry ==
    \/ RetryStart
    \/ RetryAbort
    \/ RetryRespond
    \/ RetryConnectFail
    \/ RetryMessage
    \/ RetryClose
    \/ RetryStreamFail
    \/ RetryReconnect

SpecRetry == Init /\ [][NextRetry]_vars

----------------------------------------------------------------------------
(* End-to-end scenario: the wire carries records; each record goes through *)
(* parseSseEvent and then through onmessage of the one chat.               *)

\* parseSseEvent: the fields of one record.
RECURSIVE parseLines(_, _)
parseLines(lines, event) ==
    IF lines = <<>> THEN event
    ELSE
        LET line == Head(lines)
            separatorIndex == indexOf(line, ":")
            field == trim(SubSeq(line, 1, separatorIndex - 1))
            value == trimStart(SubSeq(line, separatorIndex + 1, Len(line)))
        IN  IF line = <<>> \/ Head(line) = ":" \/ separatorIndex = 0
            THEN parseLines(Tail(lines), event)
            ELSE IF field = <<"e","v","e","n","t">>
            THEN parseLines(Tail(lines), [event EXCEPT !.type = value])
            ELSE IF field = <<"d","a","t","a">>
            THEN parseLines(Tail(lines), [event EXCEPT !.dataLines = Append(@, value)])
            ELSE parseLines(Tail(lines), event)

parseSseEventFields(event) == [type |-> event.type, data |-> joinLines(event.dataLines)]

parseSseEvent(rawEvent) ==
    parseSseEventFields(parseLines(splitLines(rawEvent), [type |-> <<>>, dataLines |-> <<>>]))

\* The event object onmessage receives for a parsed record.
asEvent(parsed) == Ev(parsed.type, parsed.data)

FieldEvent == <<"e","v","e","n","t",":"," ">>
FieldData == <<"d","a","t","a",":">>
Record(type, data) == FieldEvent \o type \o <<"\n">> \o FieldData \o data

\* "event: chunk\ndata: Hello", "event: chunk\ndata:  world", "event: done\ndata:"
RecHello == Record(EV_CHUNK, <<" ","H","e","l","l","o">>)
RecWorld == Record(EV_CHUNK, <<" "," ","w","o","r","l","d">>)
RecDone == Record(EV_DONE, <<>>)
\* "event: status\ndata: ok", "event: fatalerror\ndata: x", ": ping"
RecStatus == Record(EV_STATUS, <<" ","o","k">>)
RecFatal == Record(EV_FATALERROR, <<" ","x">>)
RecComment == <<":"," ","p","i","n","g">>

Records == {RecHello, RecWorld, RecDone, RecStatus, RecFatal, RecComment}

RECURSIVE SeqsUpTo(_, _)
SeqsUpTo(set, n) ==
    IF n = 0 THEN {<<>>}
    ELSE LET shorter == SeqsUpTo(set, n - 1) IN
         shorter \cup {Append(q, x) : q \in {r \in shorter : Len(r) = n - 1}, x \in set}

E2EStart ==
    /\ chats = <<>>
    /\ \E q \in Questions : DoSearch(q)
    /\ UNCHANGED <<nEvents, input, wire, loaded, reader>>

E2EOpen ==
    /\ chats # <<>>
    /\ DoRespond(1, 200)
    /\ UNCHANGED <<nEvents, input, wire, loaded, reader>>

E2EDeliver ==
    /\ chats # <<>>
    /\ wire # <<>>
    /\ \E propagated \in BOOLEAN :
            DoMessage(1, asEvent(parseSseEvent(Head(wire))), propagated)
    /\ wire' = Tail(wire)
    /\ UNCHANGED <<nEvents, input, loaded, reader>>

E2EClose ==
    /\ chats # <<>>
    /\ wire = <<>>
    /\ DoClose(1)
    /\ UNCHANGED <<nEvents, input, wire, loaded, reader>>

InitE2E ==
    /\ state = GLOBAL_STATE
    /\ abortController = 0
    /\ chats = <<>>
    /\ nEvents = 0
    /\ input \in SeqsUpTo(Records, MaxRecords)
    /\ wire = input
    /\ storage = Null
    /\ loaded = <<>>
    /\ reader = READER_IDLE

NextE2E ==
    \/ E2EStart
    \/ E2EOpen
    \/ E2EDeliver
    \/ E2EClose

SpecE2E == InitE2E /\ [][NextE2E]_vars

----------------------------------------------------------------------------
(* Sources: chats whose streams carry source and source_list events, with  *)
(* the source cards of the page being toggled in between.                  *)

Quoted(text) == <<"\"">> \o text \o <<"\"">>

\* {"name":"<name>","page_content":"<page>"}
SourcePayload(name, page) ==
    <<"{">> \o Quoted(<<"n","a","m","e">>) \o <<":">> \o Quoted(name) \o <<",">>
        \o Quoted(<<"p","a","g","e","_","c","o","n","t","e","n","t">>) \o <<":">>
        \o Quoted(page) \o <<"}">>

SrcNames == { <<"A">>, <<"B">> }
Snippets == { <<"x">>, <<"y">>, <<>> }

SourceEvent(name, page) == Ev(EV_SOURCE, SourcePayload(name, page))

\* source events, a source_list ["A","C"], a chunk, and a source event in the
\* legacy form "[SOURCE] {...}"
SourceMessages ==
    { SourceEvent(n, p) : n \in SrcNames, p \in Snippets }
        \cup { Ev(EV_SOURCE_LIST, <<"[">> \o Quoted(<<"A">>) \o <<",">> \o Quoted(<<"C">>) \o <<"]">>),
               Ev(EV_CHUNK, <<"a">>),
               Ev(<<>>, <<"[","S","O","U","R","C","E","]"," ">> \o SourcePayload(<<"B">>, <<"y">>)) }

\* App.tsx: dispatch(actions.sourceToggle({name})) and ({name, expanded: true})
DoSourceToggle(name, expanded) ==
    /\ state' = sourceToggle(state, name, expanded)
    /\ UNCHANGED <<abortController, chats, storage>>

SrcSearch ==
    /\ Len(chats) < MaxSrcChats
    /\ \E q \in Questions : DoSearch(q)
    /\ UNCHANGED <<nEvents, input, wire, loaded, reader>>

SrcAskQuestion ==
    /\ Len(chats) < MaxSrcChats
    /\ \E q \in Questions : DoAskQuestion(q)
    /\ UNCHANGED <<nEvents, input, wire, loaded, reader>>

SrcAbortRequest ==
    /\ DoAbortRequest
    /\ UNCHANGED <<nEvents, input, wire, loaded, reader>>

SrcOpen ==
    /\ \E i \in ChatIds : DoRespond(i, 200)
    /\ UNCHANGED <<nEvents, input, wire, loaded, reader>>

SrcMessage ==
    /\ nEvents < MaxSrcEvents
    /\ \E i \in ChatIds, event \in SourceMessages : DoMessage(i, event, TRUE)
    /\ nEvents' = nEvents + 1
    /\ UNCHANGED <<input, wire, loaded, reader>>

SrcToggle ==
    /\ \E name \in SrcNames, expanded \in {"toggle", "true"} :
            DoSourceToggle(name, expanded)
    /\ UNCHANGED <<nEvents, input, wire, loaded, reader>>

NextSources ==
    \/ SrcSearch
    \/ SrcAskQuestion
    \/ SrcAbortRequest
    \/ SrcOpen
    \/ SrcMessage
    \/ SrcToggle

SpecSources == Init /\ [][NextSources]_vars

----------------------------------------------------------------------------
(* History: the controller starts with whatever the storage key holds, and *)
(* questions are recorded one after the other.                             *)

\* "Hva er X?", "hva er x?", " A ", "a", " "
Q_HvaErX == <<"H","v","a"," ","e","r"," ","X","?">>
Q_hvaerx == <<"h","v","a"," ","e","r"," ","x","?">>
Q_PaddedA == <<" ","A"," ">>
Q_a == <<"a">>
Q_Blank == <<" ">>

HistQuestions == {Q_HvaErX, Q_hvaerx, Q_PaddedA, Q_a, Q_Blank}

\* MAX_HISTORY_ENTRIES + 1 questions, pairwise different up to case: "a", "b", ...
FreshRun == [k \in 1..(MAX_HISTORY_ENTRIES + 1) |-> <<LowerCase[k]>>]

\* What getItem may give at start: no key, "", x, {"a":1}, ["a",1,"b"],
\* ["a","A"], and an array of MAX_HISTORY_ENTRIES + 1 strings.
PersistedValues ==
    { Null,
      <<>>,
      <<"x">>,
      <<"{">> \o Quoted(<<"a">>) \o <<":","1","}">>,
      <<"[">> \o Quoted(<<"a">>) \o <<",","1",",">> \o Quoted(<<"b">>) \o <<"]">>,
      JSONStringify(<< <<"a">>, <<"A">> >>),
      JSONStringify(FreshRun) }

HistoryScenarios == SeqsUpTo(HistQuestions, MaxRecordings) \cup {FreshRun}

\* dispatch(thunkActions.recordHistory(question)); writable tells whether
\* setItem succeeds.
DoRecordHistory(question, writable) ==
    /\ state' = recordHistory(state, question)
    /\ storage' = recordStorage(state, question, storage, writable)
    /\ UNCHANGED <<abortController, chats>>

HistRecord ==
    /\ wire # <<>>
    /\ \E writable \in BOOLEAN : DoRecordHistory(Head(wire), writable)
    /\ wire' = Tail(wire)
    /\ UNCHANGED <<nEvents, input, loaded, reader>>

InitHistory ==
    /\ storage \in PersistedValues
    /\ loaded = loadHistory(storage)
    /\ state = [GLOBAL_STATE EXCEPT !.history = loaded]
    /\ abortController = 0
    /\ chats = <<>>
    /\ nEvents = 0
    /\ input \in HistoryScenarios
    /\ wire = input
    /\ reader = READER_IDLE

NextHistory == HistRecord

SpecHistory == InitHistory /\ [][NextHistory]_vars

----------------------------------------------------------------------------
(* The static client (lib/utils.ts): streamQuestion reads the response in  *)
(* network chunks, cuts it into records at blank lines and gives each      *)
(* record to handleEvent. reader holds its locals (buffer, doneReceived,   *)
(* answerPlainText, hasShownResults), the page (statusLine, answerHtml,    *)
(* contexts: the number of source cards rendered) and handled, the log of  *)
(* the arguments handleEvent was called with.                              *)

LitMinus == "-"

\* maybeParseJson on a string
maybeParseJson(value) ==
    LET trimmed == trim(value)
        jsonLike == Head(trimmed) \in ({"{", "[", "\"", LitMinus} \cup Digits)
    IN  IF trimmed = <<>> THEN Str(<<>>)
        ELSE IF ~jsonLike /\ trimmed \notin {LitTrue, LitFalse, LitNull}
        THEN Str(trimmed)
        ELSE parseOrText(trimmed, JSONParse(trimmed))

\* typeof payload === "string" ? payload : payload && typeof payload[key] === "string" ? payload[key] : other
stringOrField(payload, key, other) ==
    IF payload.t = "string" THEN payload.v
    ELSE IF Get(payload, key).t = "string" THEN Get(payload, key).v
    ELSE other

Handled(R, thrown) == [reader |-> R, thrown |-> thrown]

\* handleEvent after its two early returns: the branches on parsed.type.
handleParsed(R, parsed, payload) ==
    IF parsed.type = EV_STATUS THEN
        Handled([R EXCEPT !.statusLine =
                    stringOrField(payload, <<"m","e","s","s","a","g","e">>, @)], FALSE)
    ELSE IF parsed.type = EV_CONTEXTS THEN
        LET inner == Get(payload, <<"c","o","n","t","e","x","t","s">>)
            contextList == IF payload.t = "array" THEN payload.v
                           ELSE IF inner.t = "array" THEN inner.v ELSE <<>>
        IN  Handled([R EXCEPT !.contexts = Len(contextList), !.hasShownResults = TRUE], FALSE)
    ELSE IF parsed.type = EV_CHUNK THEN
        LET chunk == stringOrField(payload, <<"t","e","x","t">>, <<>>) IN
        IF chunk # <<>>
        THEN Handled([R EXCEPT !.answerPlainText = @ \o chunk, !.hasShownResults = TRUE], FALSE)
        ELSE Handled(R, FALSE)
    ELSE IF parsed.type = EV_ANSWER_HTML THEN
        LET html == stringOrField(payload, <<"h","t","m","l">>, <<>>) IN
        IF html # <<>>
        THEN Handled([R EXCEPT !.answerHtml = html, !.hasShownResults = TRUE], FALSE)
        ELSE Handled(R, FALSE)
    ELSE IF parsed.type = EV_ERROR THEN
        Handled(R, TRUE)
    ELSE IF parsed.type = EV_DONE THEN
        Handled([R EXCEPT !.doneReceived = TRUE], FALSE)
    ELSE IF parsed.data # <<>> /\ payload.t = "string" THEN
        Handled([R EXCEPT !.statusLine = payload.v], FALSE)
    ELSE Handled(R, FALSE)

\* handleEvent(rawEvent): the reader after it, and whether it threw.
handleEvent(R, rawEvent) ==
    LET L == [R EXCEPT !.handled = Append(@, rawEvent)] IN
    IF rawEvent = <<>> THEN Handled(L, FALSE)
    ELSE IF parseSseEvent(rawEvent).type = <<>> THEN Handled(L, FALSE)
    ELSE handleParsed(L, parseSseEvent(rawEvent),
                      maybeParseJson(parseSseEvent(rawEvent).data))

\* buffer.replace(/\r/g, "")
removeCR(text) == SelectSeq(text, LAMBDA c : c # "\r")

\* buffer.indexOf("\n\n"), counted from 1; 0 when there is none
indexOfBlankLine(text) ==
    IF \E k \in 1..(Len(text) - 1) : text[k] = "\n" /\ text[k + 1] = "\n"
    THEN CHOOSE k \in 1..(Len(text) - 1) :
            /\ text[k] = "\n" /\ text[k + 1] = "\n"
            /\ \A j \in 1..(k - 1) : ~(text[j] = "\n" /\ text[j + 1] = "\n")
    ELSE 0

\* What an exception out of the read loop leaves: the lock released, the
\* call rejected.
failed(R) == [R EXCEPT !.phase = "failed"]

\* Variant of drain: what is left of the buffer after the complete records
\* is dropped.
RECURSIVE drain_DropsPartial(_)
drain_DropsPartial(R) ==
    LET separatorIndex == indexOfBlankLine(R.buffer) IN
    IF separatorIndex = 0 THEN [R EXCEPT !.buffer = <<>>]
    ELSE
        LET next == handleEvent(
                        [R EXCEPT !.buffer = SubSeq(@, separatorIndex + 2, Len(@))],
                        SubSeq(R.buffer, 1, separatorIndex - 1))
        IN  IF next.thrown THEN failed(next.reader) ELSE drain_DropsPartial(next.reader)

\* The inner loop of the reader: every complete record of the buffer is cut
\* off and handled; a throw of handleEvent ends the call.
RECURSIVE drain(_)
drain(R) ==
    LET separatorIndex == indexOfBlankLine(R.buffer) IN
    IF separatorIndex = 0 THEN R
    ELSE
        LET next == handleEvent(
                        [R EXCEPT !.buffer = SubSeq(@, separatorIndex + 2, Len(@))],
                        SubSeq(R.buffer, 1, separatorIndex - 1))
        IN  IF next.thrown THEN failed(next.reader) ELSE drain(next.reader)

\* One turn of the outer loop: a network chunk is decoded and appended.
readChunk(R, value) == drain([R EXCEPT !.buffer = removeCR(@ \o value)])

\* After the loop: doneReceived decides between return and throw.
finish(h) ==
    IF h.thrown \/ ~h.reader.doneReceived
    THEN failed(h.reader)
    ELSE [h.reader EXCEPT !.phase = "ended"]

\* The stream has ended: the rest of the buffer is handled when not blank.
readEnd(R) ==
    IF trim(R.buffer) # <<>>
    THEN finish(handleEvent(R, trim(R.buffer)))
    ELSE finish(Handled(R, FALSE))

\* The pieces of response text, in this order:
\*   "event: chunk\ndata: a\n\n"
\*   ": c\nevent: status\ndata: x\ndata: y\n\n"
\*   "event: chunk\r\ndata: b\r\n\r\n"
\*   "event: done\ndata:\n\n"
\*   "event: done"                       (no separator after it)
\*   "event: error\ndata: e\n\n"
\*   "data: [STATUS] hello world\n\n"    (no event field, legacy tag)
\*   "data: hello\n\n"                   (no event field, no tag)
\*   "\n"
P_Chunk == <<"e","v","e","n","t",":"," ","c","h","u","n","k","\n","d","a","t","a",":"," ","a","\n","\n">>
P_Comment == <<":"," ","c","\n","e","v","e","n","t",":"," ","s","t","a","t","u","s","\n","d","a","t","a",":"," ","x","\n","d","a","t","a",":"," ","y","\n","\n">>
P_CRLF == <<"e","v","e","n","t",":"," ","c","h","u","n","k","\r","\n","d","a","t","a",":"," ","b","\r","\n","\r","\n">>
P_Done == <<"e","v","e","n","t",":"," ","d","o","n","e","\n","d","a","t","a",":","\n","\n">>
P_DoneOpen == <<"e","v","e","n","t",":"," ","d","o","n","e">>
P_Error == <<"e","v","e","n","t",":"," ","e","r","r","o","r","\n","d","a","t","a",":"," ","e","\n","\n">>
P_Legacy == <<"d","a","t","a",":"," ","[","S","T","A","T","U","S","]"," ","h","e","l","l","o"," ","w","o","r","l","d","\n","\n">>
P_Plain == <<"d","a","t","a",":"," ","h","e","l","l","o","\n","\n">>
P_Blank == <<"\n">>

Pieces ==
    {P_Chunk, P_Comment, P_CRLF, P_Done, P_DoneOpen, P_Error, P_Legacy, P_Plain, P_Blank}

RECURSIVE concat(_)
concat(texts) == IF texts = <<>> THEN <<>> ELSE Head(texts) \o concat(Tail(texts))

Texts == {concat(q) : q \in SeqsUpTo(Pieces, MaxPieces)}

Min(a, b) == IF a < b THEN a ELSE b

\* streamQuestion up to the reader: the response is ok, or the call throws.
ReaderStart ==
    /\ reader.phase = "idle"
    /\ \E status \in {200, 503} :
            reader' = IF status = 200 THEN [reader EXCEPT !.phase = "reading"]
                      ELSE failed(reader)
    /\ UNCHANGED <<state, abortController, chats, nEvents, input, wire, storage, loaded>>

\* reader.read() gives the next characters of the response, however many.
ReaderChunk ==
    /\ reader.phase = "reading"
    /\ wire # <<>>
    /\ \E n \in 1..Min(Len(wire), MaxChunkLen) :
            /\ reader' = readChunk(reader, SubSeq(wire, 1, n))
            /\ wire' = SubSeq(wire, n + 1, Len(wire))
    /\ UNCHANGED <<state, abortController, chats, nEvents, input, storage, loaded>>

\* reader.read() gives done.
ReaderEnd ==
    /\ reader.phase = "reading"
    /\ wire = <<>>
    /\ reader' = readEnd(reader)
    /\ UNCHANGED <<state, abortController, chats, nEvents, input, wire, storage, loaded>>

InitReader ==
    /\ state = GLOBAL_STATE
    /\ abortController = 0
    /\ chats = <<>>
    /\ nEvents = 0
    /\ input \in Texts
    /\ wire = input
    /\ storage = Null
    /\ loaded = <<>>
    /\ reader = READER_IDLE

NextReader ==
    \/ ReaderStart
    \/ ReaderChunk
    \/ ReaderEnd

SpecReader == InitReader /\ [][NextReader]_vars

----------------------------------------------------------------------------
(* Events: chats whose streams carry every kind of event of the table, in  *)
(* both payload shapes, and events of a type the table does not have.      *)

EV_NOTE == <<"n","o","t","e">>

\* {"<key>":"<text>"}
FieldPayload(key, text) == <<"{">> \o Quoted(key) \o <<":">> \o Quoted(text) \o <<"}">>

\* session_id s1 / s2, status ok, chunk a, chunk {"text":"b"}, answer_html <p>,
\* answer_html {"html":"h"}, contexts [], note hi, note 0, source A x,
\* source B y, source_list ["B","C","A"], done
EventMessages ==
    { Ev(EV_SESSION_ID, <<"s","1">>),
      Ev(EV_SESSION_ID, <<"s","2">>),
      Ev(EV_STATUS, <<"o","k">>),
      Ev(EV_CHUNK, <<"a">>),
      Ev(EV_CHUNK, FieldPayload(<<"t","e","x","t">>, <<"b">>)),
      Ev(EV_ANSWER_HTML, <<"<","p",">">>),
      Ev(EV_ANSWER_HTML, FieldPayload(<<"h","t","m","l">>, <<"h">>)),
      Ev(EV_CONTEXTS, <<"[","]">>),
      Ev(EV_NOTE, <<"h","i">>),
      Ev(EV_NOTE, <<"0">>),
      SourceEvent(<<"A">>, <<"x">>),
      SourceEvent(<<"B">>, <<"y">>),
      Ev(EV_SOURCE_LIST, <<"[">> \o Quoted(<<"B">>) \o <<",">> \o Quoted(<<"C">>)
                            \o <<",">> \o Quoted(<<"A">>) \o <<"]">>),
      Ev(EV_DONE, <<>>) }

EvtSearch ==
    /\ Len(chats) < MaxEvtChats
    /\ \E q \in Questions : DoSearch(q)
    /\ UNCHANGED <<nEvents, input, wire, loaded, reader>>

EvtAskQuestion ==
    /\ Len(chats) < MaxEvtChats
    /\ \E q \in Questions : DoAskQuestion(q)
    /\ UNCHANGED <<nEvents, input, wire, loaded, reader>>

EvtOpen ==
    /\ \E i \in ChatIds : DoRespond(i, 200)
    /\ UNCHANGED <<nEvents, input, wire, loaded, reader>>

EvtMessage ==
    /\ nEvents < MaxEvtEvents
    /\ \E i \in ChatIds, event \in EventMessages : DoMessage(i, event, TRUE)
    /\ nEvents' = nEvents + 1
    /\ UNCHANGED <<input, wire, loaded, reader>>

NextEvents ==
    \/ EvtSearch
    \/ EvtAskQuestion
    \/ EvtOpen
    \/ EvtMessage

SpecEvents == Init /\ [][NextEvents]_vars

----------------------------------------------------------------------------
(* Properties *)

\* The type an event resolves to (explicit event field or legacy tag),
\* before onmessage decides to throw.
EventType(event) ==
    resolveType(event, trim(event.data),
                parsePayload(event, trim(event.data))).payloadType

HelloWorld == <<"H","e","l","l","o"," ","w","o","r","l","d">>

\* C1: abortRequest while streaming, the last turn having empty content,
\* removes that turn, and leaves status Idle if the conversation is then
\* empty and Done otherwise.
C1_AbortRemovesEmptyTurn ==
    [][ ( /\ DoAbortRequest
          /\ state.status = StreamingMessage
          /\ state.conversation # <<>>
          /\ Last(state.conversation).content = <<>> )
        => ( /\ state'.conversation =
                    SubSeq(state.conversation, 1, Len(state.conversation) - 1)
             /\ state'.status =
                    IF state'.conversation = <<>> THEN Idle ELSE Done ) ]_vars

\* C2: in every reachable state at most one stream opened by chat is open.
C2_AtMostOneStream ==
    Cardinality({i \in ChatIds : chats[i].phase = "open"}) <= 1

\* C3: an event delivered by the stream of a chat that was cancelled, or
\* superseded by a later chat, changes no part of the store.
Stale(i) == chats[i].phase = "aborted" \/ i < Len(chats)

C3_StaleEventsDiscarded ==
    [][ \A i \in ChatIds, event \in Messages, propagated \in BOOLEAN :
            (Stale(i) /\ DoMessage(i, event, propagated)) => state' = state ]_vars

\* C4: when every connection attempt of a chat opens with 503, status is
\* Error once 3 attempts have failed, the last status message being the
\* fallback message.
FailedAttempts(i) ==
    chats[i].countRetiresError + (IF chats[i].phase = "rejected" THEN 1 ELSE 0)

C4_ErrorAfterThreeAttempts ==
    \A i \in ChatIds :
        (i = Len(chats) /\ chats[i].only503 /\ FailedAttempts(i) >= 3
            /\ chats[i].phase # "aborted")
        => ( /\ state.status = Error
             /\ state.statusMessages # <<>>
             /\ Last(state.statusMessages) = MsgFallback )

\* C5: an event whose type resolves to fatalerror or error is a terminal
\* failure: status becomes Error, the server's message (the fallback when it
\* is empty) is appended, and the stream delivers nothing more.
C5_ErrorEventsTerminal ==
    [][ \A i \in ChatIds, event \in Messages, propagated \in BOOLEAN :
            ( /\ EventType(event) \in {EV_FATALERROR, EV_ERROR}
              /\ DoMessage(i, event, propagated) )
            => ( /\ state'.status = Error
                 /\ state'.statusMessages =
                        Append(state.statusMessages,
                               IF trim(event.data) # <<>>
                               THEN trim(event.data) ELSE MsgFallback)
                 /\ chats'[i].phase # "open" ) ]_vars

\* C6: at connection open a 2xx response is accepted and the stream is read;
\* a 4xx other than 429 sets status Error at once and no reconnect follows;
\* any other response, and a network failure, leaves the store as it is
\* (status stays Streaming) with a reconnect pending, while the retry budget
\* lasts.
BudgetLasts(i) == chats[i].countRetiresError <= RETRY_LIMIT

RetriedQuietly(i) ==
    BudgetLasts(i) =>
        ( /\ state' = state
          /\ chats'[i].phase = "retrywait"
          /\ (state.status = StreamingMessage => state'.status = StreamingMessage) )

C6_OpenClassification ==
    [][ /\ \A i \in ChatIds, status \in Codes :
            DoRespond(i, status) =>
                IF status \in 200..299
                THEN chats'[i].phase = "open" /\ state' = state
                ELSE IF status \in 400..499 /\ status # 429
                THEN /\ state'.status = Error
                     /\ chats'[i].phase = "rejected"
                     /\ chats[i].countRetiresError = chats'[i].countRetiresError
                ELSE RetriedQuietly(i)
        /\ \A i \in ChatIds :
            (DoConnectFail(i) \/ DoStreamFail(i)) => RetriedQuietly(i) ]_vars

C6_Witness ==
    /\ chats # <<>>
    /\ chats[1].phase = "retrywait"
    /\ chats[1].countRetiresError = 2
    /\ ~chats[1].only503
    /\ state.status = StreamingMessage

\* C7: a stream that opens with 2xx, carries no error event and ends with a
\* done event: the done event appends the final narration and sets status
\* Done, status is Done when the stream has ended, and the chat resolves
\* (nothing is thrown out of it).
IsDoneRecord(r) == parseSseEvent(r).type = EV_DONE
IsErrorRecord(r) == parseSseEvent(r).type \in {EV_FATALERROR, EV_ERROR}

WellFormed(records) ==
    /\ records # <<>>
    /\ IsDoneRecord(Last(records))
    /\ \A k \in 1..Len(records) : ~IsErrorRecord(records[k])

C7_WellFormedEndsDone ==
    (chats # <<>> /\ WellFormed(input)) =>
        /\ chats[1].phase # "rejected"
        /\ (wire = <<>> =>
                /\ state.status = Done
                /\ Last(state.statusMessages) = MsgDone)

C7_Witness ==
    /\ chats # <<>>
    /\ WellFormed(input)
    /\ Len(input) = 3
    /\ chats[1].phase = "resolved"
    /\ state.status = Done

\* C8: the records "event: chunk / data: Hello", "event: chunk / data:  world"
\* and "event: done / data:" leave the assistant turn with content
\* "Hello world" and status Done.
C8_HelloWorld ==
    (input = <<RecHello, RecWorld, RecDone>> /\ chats # <<>> /\ chats[1].phase = "resolved")
        => ( /\ state.status = Done
             /\ state.conversation[1].content = HelloWorld )

\* C9: once no stream of any chat is open and no reconnect is pending,
\* status is not Streaming.
C9_NoStuckStreaming ==
    (chats # <<>> /\ \A i \in ChatIds : chats[i].phase \notin Active)
        => state.status # StreamingMessage

\* C10: abortRequest leaves status Done or Idle and statusMessages empty and
\* closes the transport of the chat it cancels; a cancelled chat stays as it
\* is and none of its callbacks runs afterwards.
C10_AbortNeverErrors ==
    [][ /\ DoAbortRequest =>
            /\ state'.status \in {Done, Idle}
            /\ state'.statusMessages = <<>>
            /\ abortController # 0 => chats'[abortController].phase \notin Active
        /\ \A i \in ChatIds :
            chats[i].phase = "aborted" =>
                /\ chats'[i] = chats[i]
                /\ ~ \E event \in Messages, propagated \in BOOLEAN :
                        DoMessage(i, event, propagated)
                /\ ~ \E status \in Codes : DoRespond(i, status)
                /\ ~ (DoConnectFail(i) \/ DoStreamFail(i) \/ DoReconnect(i) \/ DoClose(i)) ]_vars

C10_Witness ==
    /\ abortController = 0
    /\ \E i \in ChatIds : chats[i].phase = "aborted" /\ chats[i].message # <<>>
    /\ state.status = Done
    /\ state.statusMessages = <<>>

\* C11: in every reachable state the ids of the turns of the conversation
\* are strictly increasing in array order (hence pairwise distinct).
C11_IdsIncreasing ==
    \A j, k \in 1..Len(state.conversation) :
        j < k => state.conversation[j].id < state.conversation[k].id

C11_Witness ==
    /\ Len(chats) = 2
    /\ chats[1].phase = "aborted"
    /\ Len(state.conversation) = 3
    /\ state.conversation[3].id = 3

\* C12: askQuestion(q) on a conversation of n turns appends, in one step and
\* with the new request still unanswered, a human turn (content q, id n+1)
\* and an empty assistant turn (id n+2), and leaves the earlier turns alone.
C12_AskAppendsTwoTurns ==
    [][ \A q \in Questions :
            (Len(chats') = Len(chats) + 1 /\ DoAskQuestion(q)) =>
                /\ state'.conversation =
                        state.conversation
                            \o << Turn(Len(state.conversation) + 1, TRUE, q),
                                  Turn(Len(state.conversation) + 2, FALSE, <<>>) >>
                /\ Last(chats').phase = "connecting"
                /\ Last(chats').message = <<>> ]_vars

C12_Witness ==
    /\ Len(state.conversation) = 4
    /\ state.conversation[2].content # <<>>
    /\ state.conversation[3].isHuman
    /\ state.conversation[3].id = 3
    /\ ~state.conversation[4].isHuman
    /\ Last(chats).phase = "connecting"

\* C20: every step that starts a chat (search or askQuestion, which add a
\* closure to chats), from any status, leaves status Streaming and
\* statusMessages holding the initial narration only.
C20_EntryClearsStatusMessages ==
    [][ Len(chats') = Len(chats) + 1 =>
            /\ state'.status = StreamingMessage
            /\ state'.statusMessages = <<MsgStart>> ]_vars

C20_Witness ==
    /\ Len(chats) = 2
    /\ chats[1].phase = "rejected"
    /\ chats[2].phase = "connecting"
    /\ state.status = StreamingMessage
    /\ state.statusMessages = <<MsgStart>>

\* C13: a source event for a name already in sources appends its snippet to
\* that source's summary unless the summary holds it already, and for a new
\* name adds a source with that one snippet, collapsed; in every reachable
\* state no two sources share a name and no summary holds a snippet twice.
NoDuplicates(list) ==
    \A j, k \in 1..Len(list) : j # k => list[j] # list[k]

SourcesDistinct ==
    /\ NoDuplicates([k \in 1..Len(state.sources) |-> state.sources[k].name])
    /\ \A k \in 1..Len(state.sources) : NoDuplicates(state.sources[k].summary)

Holds(summary, snippet) == \E j \in 1..Len(summary) : summary[j] = snippet

SourceAdded(name, page) ==
    LET known == {k \in 1..Len(state.sources) : state.sources[k].name = name} IN
    IF known = {}
    THEN /\ Len(state'.sources) = Len(state.sources) + 1
         /\ SubSeq(state'.sources, 1, Len(state.sources)) = state.sources
         /\ Last(state'.sources).name = name
         /\ Last(state'.sources).summary = <<page>>
         /\ Last(state'.sources).expanded = FALSE
    ELSE \A k \in known :
            state'.sources =
                IF Holds(state.sources[k].summary, page) THEN state.sources
                ELSE [state.sources EXCEPT ![k].summary = Append(@, page)]

IsPrefix(a, b) == Len(a) <= Len(b) /\ SubSeq(b, 1, Len(a)) = a

SourcesGrow ==
    /\ Len(state.sources) <= Len(state'.sources)
    /\ \A k \in 1..Len(state.sources) :
            /\ state'.sources[k].name = state.sources[k].name
            /\ IsPrefix(state.sources[k].summary, state'.sources[k].summary)

C14_SourcesOnlyGrow ==
    [][ (\E q \in Questions : DoSearch(q)) \/ SourcesGrow ]_vars

C14_Witness ==
    /\ Len(chats) = 2
    /\ chats[2].phase = "aborted"
    /\ Len(state.sources) = 2
    /\ state.sources[1].expanded
    /\ state.sources[2].name # state.sources[1].name

\* C15: in every reachable state, whatever the storage key held at start,
\* history has at most MAX_HISTORY_ENTRIES entries and no two of them are
\* equal up to case.
EqualUpToCase(a, b) == toLowerCase(a) = toLowerCase(b)

C15_HistoryBoundedDistinct ==
    /\ Len(state.history) <= MAX_HISTORY_ENTRIES
    /\ \A j, k \in 1..Len(state.history) :
            j # k => ~EqualUpToCase(state.history[j], state.history[k])

\* C16: recordHistory(question) with a blank question leaves history and
\* the stored value as they are; otherwise the trimmed question is the first
\* entry and the entries after it are the earlier ones that differ from it
\* up to case, in their order. "Hva er X?" then "hva er x?" on an empty
\* history gives ["hva er x?"].
Others(history, question) ==
    SelectSeq(history, LAMBDA entry : ~EqualUpToCase(entry, question))

Recorded(question) ==
    IF trim(question) = <<>>
    THEN state'.history = state.history /\ storage' = storage
    ELSE /\ Head(state'.history) = trim(question)
         /\ Tail(state'.history) =
                slice(Others(state.history, trim(question)), MAX_HISTORY_ENTRIES - 1)

C16_RecordHistory ==
    /\ []( (loaded = <<>> /\ input = <<Q_HvaErX, Q_hvaerx>> /\ wire = <<>>)
                => state.history = <<Q_hvaerx>> )
    /\ [][ (wire # <<>> /\ wire' = Tail(wire)) => Recorded(Head(wire)) ]_vars

C16_Witness ==
    /\ loaded = <<>>
    /\ input = <<Q_HvaErX, Q_hvaerx>>
    /\ wire = <<>>
    /\ state.history = <<Q_hvaerx>>
    /\ storage = JSONStringify(<<Q_hvaerx>>)

\* C17: after MAX_HISTORY_ENTRIES + 1 different questions recorded on an
\* empty history, history holds exactly MAX_HISTORY_ENTRIES entries: the
\* oldest of the questions recorded.
C17_KeepsOldest ==
    (loaded = <<>> /\ input = FreshRun /\ wire = <<>>)
        => /\ Len(state.history) = MAX_HISTORY_ENTRIES
           /\ {state.history[k] : k \in 1..Len(state.history)}
                    = {FreshRun[k] : k \in 1..MAX_HISTORY_ENTRIES}

\* C18: a record with no event field whose payload is "[T] rest" is typed T
\* in lower case with payload rest (JSON when it starts with { or [, null
\* when empty), and one with no tag and a payload is typed chunk: by
\* onmessage, and by the reader's handleEvent, for which "[STATUS] hello
\* world" sets the status line and "hello" is added to the answer.
TextHelloWorld == <<"h","e","l","l","o"," ","w","o","r","l","d">>
TextHello == <<"h","e","l","l","o">>
TextStatusHelloWorld == <<"[","S","T","A","T","U","S","]"," ","h","e","l","l","o"," ","w","o","r","l","d">>
TextDoneTag == <<"[","D","O","N","E","]">>
TextSourceListTag == <<"[","S","O","U","R","C","E","_","L","I","S","T","]"," ","[","\"","A","\"","]">>

C18_LegacyTagTyping ==
    /\ decodeEvent(Ev(<<>>, TextStatusHelloWorld)) = Typed(EV_STATUS, Str(TextHelloWorld))
    /\ decodeEvent(Ev(<<>>, TextDoneTag)) = Typed(EV_DONE, JsNull)
    /\ decodeEvent(Ev(<<>>, TextSourceListTag)) = Typed(EV_SOURCE_LIST, Arr(<<Str(<<"A">>)>>))
    /\ decodeEvent(Ev(<<>>, TextHello)) = Typed(EV_CHUNK, Str(TextHello))
    /\ (reader.phase = "ended" /\ input = P_Legacy \o P_Done)
            => reader.statusLine = TextHelloWorld
    /\ (reader.phase = "ended" /\ input = P_Plain \o P_Done)
            => reader.answerPlainText = TextHello

\* C19: whatever the split of the response into network chunks, the records
\* handled are the segments of the text between blank lines, in order, then
\* the rest of the text when it is not blank (up to the record that throws);
\* while reading, the buffer holds no complete record and what is buffered
\* or still to come gives the records not yet handled. In a record comment
\* lines are ignored, event gives the type and the data values are joined
\* with a line break.
RECURSIVE Segments(_)
Segments(text) ==
    IF \E k \in 1..(Len(text) - 1) : text[k] = "\n" /\ text[k + 1] = "\n"
    THEN LET k == CHOOSE k \in 1..(Len(text) - 1) :
                    /\ text[k] = "\n" /\ text[k + 1] = "\n"
                    /\ \A j \in 1..(k - 1) : ~(text[j] = "\n" /\ text[j + 1] = "\n")
         IN  <<SubSeq(text, 1, k - 1)>> \o Segments(SubSeq(text, k + 2, Len(text)))
    ELSE IF trim(text) # <<>> THEN <<trim(text)>> ELSE <<>>

Throws(record) == record # <<>> /\ parseSseEvent(record).type = EV_ERROR

RECURSIVE UpToError(_)
UpToError(records) ==
    IF records = <<>> THEN <<>>
    ELSE IF Throws(Head(records)) THEN <<Head(records)>>
    ELSE <<Head(records)>> \o UpToError(Tail(records))

AllRecords == UpToError(Segments(removeCR(input)))

C19_SplitIndependent ==
    /\ reader.phase = "reading" =>
            /\ indexOfBlankLine(reader.buffer) = 0
            /\ UpToError(reader.handled \o Segments(removeCR(reader.buffer \o wire)))
                    = AllRecords
    /\ reader.phase = "ended" => (wire = <<>> /\ reader.handled = AllRecords)
    /\ reader.phase = "failed" =>
            \/ reader.handled = AllRecords
            \/ reader.handled = <<>> /\ wire = input
    /\ parseSseEvent(SubSeq(P_Comment, 1, Len(P_Comment) - 2))
            = [type |-> EV_STATUS, data |-> <<"x", "\n", "y">>]

C19_Witness ==
    /\ reader.phase = "ended"
    /\ input = P_CRLF \o P_DoneOpen
    /\ Len(reader.handled) = 2
    /\ reader.handled[2] = P_DoneOpen
    /\ reader.answerPlainText = <<"b">>

\* C21: once sessionId is not null, every step other than a search (the
\* only caller of reset) leaves it as it is, whatever session_id events
\* arrive.
IsSearchStep == \E q \in Questions : DoSearch(q)

C21_SessionIdSetOnce ==
    [][ (state.sessionId # Null /\ ~IsSearchStep)
            => state'.sessionId = state.sessionId ]_vars

\* C22: reset applied to any reachable store gives status Idle, sessionId
\* null, conversation, sources and statusMessages empty, and the history
\* the store had.
C22_ResetFrame ==
    reset(state) =
        [status |-> Idle, sessionId |-> Null, conversation |-> <<>>,
         sources |-> <<>>, statusMessages |-> <<>>, history |-> state.history]

C22_Witness ==
    /\ Len(chats) = 2
    /\ chats[1].message # <<>>
    /\ chats[2].conversationId = 1
    /\ state.history # <<>>
    /\ state.sessionId = Null
    /\ state.sources = <<>>
    /\ Len(state.conversation) = 1
    /\ nEvents = 3

\* C23: setMessageSource(id, names) on any reachable store gives the turn
\* with that id the sources named by names, in the order of names, names
\* with no source dropped; every other turn and every other field of the
\* store is as before, and so is the whole store when no turn has that id.
NameLists ==
    { << Str(<<"B">>), Str(<<"C">>), Str(<<"A">>) >>,
      << Str(<<"A">>), Str(<<"A">>) >>,
      << Str(<<"C">>) >>,
      << Num(<<"1">>), Str(<<"B">>) >>,
      <<>> }

HasSource(sources, name) ==
    name.t = "string" /\ \E j \in 1..Len(sources) : sources[j].name = name.v

Known(names, sources) == {k \in 1..Len(names) : HasSource(sources, names[k])}

\* the n-th smallest number of a set
Nth(set, n) == CHOOSE k \in set : Cardinality({j \in set : j < k}) = n - 1

SourceNamed(sources, name) ==
    sources[CHOOSE j \in 1..Len(sources) : sources[j].name = name.v]

Attached(names, sources) ==
    [n \in 1..Cardinality(Known(names, sources)) |->
        SourceNamed(sources, names[Nth(Known(names, sources), n)])]

SourcesSet(S, id, names) ==
    [S EXCEPT !.conversation =
        [k \in 1..Len(S.conversation) |->
            IF S.conversation[k].id = id
            THEN [S.conversation[k] EXCEPT !.sources = Attached(names, S.sources)]
            ELSE S.conversation[k]]]

C23_SetMessageSource ==
    \A id \in 1..(Len(state.conversation) + 1), names \in NameLists :
        setMessageSource(state, id, names) = SourcesSet(state, id, names)

C23_Witness ==
    /\ Len(state.sources) = 2
    /\ state.sources[1].name = <<"A">>
    /\ state.sources[2].name = <<"B">>
    /\ Len(state.conversation) = 2
    /\ Len(state.conversation[2].sources) = 2
    /\ state.conversation[2].sources[1].name = <<"B">>
    /\ state.conversation[2].sources[2].name = <<"A">>
    /\ state.conversation[1].sources = <<>>

\* C24: an event whose type is none of the table's and whose payload is not
\* empty appends a status message carrying that payload.
Recognized ==
    {EV_SESSION_ID, EV_SOURCE, EV_STATUS, EV_SOURCE_LIST, EV_CONTEXTS, EV_CHUNK,
     EV_ANSWER_HTML, EV_DONE, EV_FATALERROR, EV_ERROR}

C24_UnknownEventsNarrated ==
    [][ nEvents' # nEvents =>
            \A i \in ChatIds, event \in EventMessages :
                ( /\ EventType(event) \notin Recognized
                  /\ trim(event.data) # <<>>
                  /\ DoMessage(i, event, TRUE) )
                => state'.statusMessages =
                        Append(state.statusMessages, trim(event.data)) ]_vars

\* C25: a chunk event appends its text to the content of the chat's turn
\* whether its payload is a string or an object with a text field, and an
\* answer_html event sets the turn's contentHtml whether its payload is a
\* string or an object with an html field.
TurnOf(S, i) == S.conversation[findIndexById(S.conversation, chats[i].conversationId)]

HasTurn(i) == findIndexById(state.conversation, chats[i].conversationId) # 0

ChunkApplied(i, event, text) ==
    (HasTurn(i) /\ DoMessage(i, event, TRUE))
        => TurnOf(state', i).content = chats[i].message \o text

HtmlApplied(i, event, html) ==
    (HasTurn(i) /\ DoMessage(i, event, TRUE))
        => TurnOf(state', i).contentHtml = html

C25_BothPayloadShapes ==
    [][ nEvents' # nEvents =>
            \A i \in ChatIds :
                /\ ChunkApplied(i, Ev(EV_CHUNK, <<"a">>), <<"a">>)
                /\ ChunkApplied(i, Ev(EV_CHUNK, FieldPayload(<<"t","e","x","t">>, <<"b">>)), <<"b">>)
                /\ HtmlApplied(i, Ev(EV_ANSWER_HTML, <<"<","p",">">>), <<"<","p",">">>)
                /\ HtmlApplied(i, Ev(EV_ANSWER_HTML, FieldPayload(<<"h","t","m","l">>, <<"h">>)), <<"h">>) ]_vars

\* C26: a stored value that is absent, not JSON or not an array loads as the
\* empty history, and the controller starts with it; a recordHistory whose
\* write fails leaves the stored value as it was and the store holding the
\* new list.
Corrupt(raw) == raw = Null \/ ~JSONParse(raw).ok \/ JSONParse(raw).val.t # "array"

C26_PersistenceFailuresTolerated ==
    /\ [](\A raw \in PersistedValues \cup {storage} :
                Corrupt(raw) => loadHistory(raw) = <<>>)
    /\ []((wire = input /\ Corrupt(storage)) => (loaded = <<>> /\ state.history = <<>>))
    /\ [][ (wire # <<>> /\ DoRecordHistory(Head(wire), FALSE))
                => (Recorded(Head(wire)) /\ storage' = storage) ]_vars

C26_Witness ==
    /\ storage = <<"x">>
    /\ loaded = <<>>
    /\ input = <<Q_HvaErX, Q_PaddedA>>
    /\ wire = <<>>
    /\ state.history = << <<"A">>, Q_HvaErX >>

\* C27: a search(q) step, from whatever state, leaves the conversation with
\* one turn (assistant, id 1, empty content), no sources, a null sessionId
\* (in the store and in the new request), statusMessages holding the initial
\* narration only, status Streaming, and the history with trimmed q in
\* front of the earlier entries; the new chat has received nothing yet.
C27_SearchStartsAfresh ==
    [][ Len(chats') = Len(chats) + 1 =>
            \A q \in Questions :
                DoSearch(q) =>
                    /\ state'.conversation = << Turn(1, FALSE, <<>>) >>
                    /\ state'.sources = <<>>
                    /\ state'.sessionId = Null
                    /\ Last(chats').sessionId = Null
                    /\ state'.statusMessages = <<MsgStart>>
                    /\ state'.status = StreamingMessage
                    /\ Head(state'.history) = trim(q)
                    /\ Tail(state'.history) =
                            slice(Others(state.history, trim(q)), MAX_HISTORY_ENTRIES - 1)
                    /\ Last(chats').phase = "connecting"
                    /\ Last(chats').message = <<>> ]_vars

C27_Witness ==
    /\ Len(chats) = 2
    /\ chats[1].conversationId = 2
    /\ chats[1].message # <<>>
    /\ chats[2].conversationId = 1
    /\ chats[2].phase = "connecting"
    /\ state.conversation = << Turn(1, FALSE, <<>>) >>
    /\ state.status = StreamingMessage
    /\ state.history = << <<"H","v","a">> >>

\* C28: within one chat the content of its turn is the text accumulated by
\* the chat; a chunk appends its text to it, and no other step of the chat
\* (failure, reconnect, response) changes it: the content only grows, by
\* the chunk texts in arrival order, over all connection attempts.
HasTurnIn(S, i) == findIndexById(S.conversation, chats[i].conversationId) # 0

C28_ContentAppendOnly ==
    /\ []((chats # <<>> /\ HasTurnIn(state, 1))
                => TurnOf(state, 1).content = chats[1].message)
    /\ [][ chats # <<>> =>
                /\ IsPrefix(chats[1].message, chats'[1].message)
                /\ (HasTurnIn(state, 1) /\ HasTurnIn(state', 1))
                        => IsPrefix(TurnOf(state, 1).content, TurnOf(state', 1).content)
                /\ DoMessage(1, Ev(EV_CHUNK, <<"a">>), TRUE)
                        => TurnOf(state', 1).content = TurnOf(state, 1).content \o <<"a">>
                /\ ( \/ DoConnectFail(1) \/ DoStreamFail(1) \/ DoReconnect(1)
                     \/ \E status \in Codes : DoRespond(1, status) )
                        => chats'[1].message = chats[1].message ]_vars

C28_Witness ==
    /\ chats # <<>>
    /\ chats[1].phase = "open"
    /\ chats[1].countRetiresError = 2
    /\ chats[1].message = <<"a", "a">>
    /\ state.conversation[Len(state.conversation)].content = <<"a", "a">>
    /\ state.status = StreamingMessage

\* C29: the retry counter of a chat never decreases and never exceeds
\* RETRY_LIMIT + 1; a successful open leaves it as it is; every reconnect
\* that is scheduled adds one to it; once it has passed RETRY_LIMIT the next
\* failure sets status Error and ends the attempt, and an ended attempt
\* stays ended. Hence a chat reconnects at most RETRY_LIMIT + 1 times.
FailsNow(i) ==
    \/ DoConnectFail(i)
    \/ DoStreamFail(i)
    \/ \E status \in Codes : onopen(status) # "none" /\ DoRespond(i, status)

C29_ReconnectsBounded ==
    /\ [](chats # <<>> => chats[1].countRetiresError <= RETRY_LIMIT + 1)
    /\ [][ chats # <<>> =>
                /\ chats'[1].countRetiresError >= chats[1].countRetiresError
                /\ (\E status \in Codes : onopen(status) = "none" /\ DoRespond(1, status))
                        => chats'[1].countRetiresError = chats[1].countRetiresError
                /\ (chats[1].phase # "retrywait" /\ chats'[1].phase = "retrywait")
                        => chats'[1].countRetiresError = chats[1].countRetiresError + 1
                /\ (chats[1].countRetiresError > RETRY_LIMIT /\ FailsNow(1))
                        => (state'.status = Error /\ chats'[1].phase = "rejected")
                /\ chats[1].phase = "rejected" => chats'[1] = chats[1] ]_vars

C29_Witness ==
    /\ chats # <<>>
    /\ chats[1].phase = "rejected"
    /\ chats[1].countRetiresError = RETRY_LIMIT + 1
    /\ chats[1].message # <<>>
    /\ state.status = Error
    /\ Last(state.statusMessages) = MsgFallback

\* C30: each stream event changes only its own part of the store:
\* session_id only sessionId, source only sources, status only
\* statusMessages, chunk only the content and answer_html only the
\* contentHtml of the turn of the chat that owns the stream, contexts
\* nothing; no event changes history or a turn created by another chat.
\* A chat started by search has conversationId 1 (the conversation was just
\* reset), one started by askQuestion a larger one: the turn whose id is the
\* conversationId of chat i was created by chat i when no search came later.
OwnsTurn(i) == \A j \in (i + 1)..Len(chats) : chats[j].conversationId # 1

Fields == {"status", "conversation", "sessionId", "sources", "history", "statusMessages"}

OnlyChanges(fields) == \A f \in Fields \ fields : state'[f] = state[f]

OnlyTurnField(i, field) ==
    /\ OwnsTurn(i)
    /\ Len(state'.conversation) = Len(state.conversation)
    /\ \A k \in 1..Len(state.conversation) :
            /\ state.conversation[k].id # chats[i].conversationId
                    => state'.conversation[k] = state.conversation[k]
            /\ \A f \in DOMAIN state.conversation[k] \ {field} :
                    state'.conversation[k][f] = state.conversation[k][f]

FrameOf(i, type) ==
    /\ state'.history = state.history
    /\ CASE type = EV_SESSION_ID -> OnlyChanges({"sessionId"})
         [] type = EV_SOURCE -> OnlyChanges({"sources"})
         [] type = EV_STATUS -> OnlyChanges({"statusMessages"})
         [] type = EV_CONTEXTS -> OnlyChanges({})
         [] type = EV_CHUNK ->
                /\ OnlyChanges({"conversation"})
                /\ state'.conversation # state.conversation => OnlyTurnField(i, "content")
         [] type = EV_ANSWER_HTML ->
                /\ OnlyChanges({"conversation"})
                /\ state'.conversation # state.conversation => OnlyTurnField(i, "contentHtml")
         [] OTHER ->
                \A k \in 1..Len(state.conversation) :
                    (k <= Len(state'.conversation)
                        /\ state'.conversation[k] # state.conversation[k])
                    => (OwnsTurn(i) /\ state.conversation[k].id = chats[i].conversationId)

C30_EventFrames ==
    [][ nEvents' # nEvents =>
            \A i \in ChatIds, event \in EventMessages :
                DoMessage(i, event, TRUE) => FrameOf(i, EventType(event)) ]_vars

====
